---------------------------- MODULE Spec2Model ----------------------------
(***************************************************************************)
(* Pending-action reconciliation of the gossip client.                     *)
(*                                                                         *)
(* The UI thread owns NotificationData (active list, two counters, the     *)
(* recorded fingerprint) and runs calc(); worker threads mutate the        *)
(* Pending Source (GLOBALS.pending) concurrently.  calc() touches the      *)
(* Pending Source twice: GLOBALS.pending.hash() (mod.rs:84) and            *)
(* GLOBALS.pending.read() (mod.rs:92); these are two separate lock         *)
(* acquisitions, so worker steps can fall between them.  The read guard    *)
(* lives for the whole for-loop, so no worker step falls inside the loop.  *)
(* Arrival times are the ticks of a logical clock that advances with every *)
(* mutation of the Pending Source.                                         *)
(*                                                                         *)
(* Besides the reconciler (Spec, SpecBorrow) the module follows a pass     *)
(* step by step next to the registry locks (SpecPass, SpecPassLive), the   *)
(* Notifications page (SpecPage), and, for the Global State Registry of    *)
(* globals.rs, its one-time initialization (SpecInit), its command channel *)
(* (SpecCommand) and its broadcast channel (SpecBroadcast), and the        *)
(* settings page saving through that command channel (SpecSave).  Each     *)
(* specification moves its own variables and leaves the others alone.      *)
(***************************************************************************)
EXTENDS Naturals, Sequences, FiniteSets

\* ------------------------------------------------------------------ bounds

\* Number of worker mutations of the Pending Source in one run of the model.
MaxChanges == 3

\* Number of commands one sender puts on the command channel in one run.
MaxSends == 2

\* Number of worker mutations of the Pending Source in one run of the model
\* that follows a pass step by step.
MaxPassChanges == 2

\* Length of the longest active list the Notifications page is drawn from.
MaxEntries == 3

\* ------------------------------------------------------- the item universe

Conn(relay, jobs) == [kind |-> "RelayConnectionRequest", relay |-> relay, jobs |-> jobs]

Auth(account, relay) ==
    [kind |-> "RelayAuthenticationRequest", account |-> account, relay |-> relay]

\* PendingItem::RelayConnectionRequest { relay, jobs }: the same relay with two
\* job lists, and another relay.
ConnItems == {Conn("wss://a", "j1"), Conn("wss://a", "j2"), Conn("wss://b", "j1")}

\* PendingItem::RelayAuthenticationRequest { account, relay }: one (account, relay),
\* the same relay with another account, the same account with another relay.
AuthItems == {Auth("A", "wss://a"), Auth("B", "wss://a"), Auth("A", "wss://b")}

\* PendingItem::Nip46Request { client_name, account, command }
Nip46Items == {[kind |-> "Nip46Request", client_name |-> "client", account |-> "A",
                command |-> "sign"]}

\* Every other PendingItem variant (the catch-all arm of calc's match).
OtherItems == {[kind |-> "Other", payload |-> "p"]}

PendingItems == ConnItems \cup AuthItems \cup Nip46Items \cup OtherItems

\* ------------------------------------------------------------------- state

VARIABLES
    pending,            \* GLOBALS.pending: sequence of [item, time], arrival order
    clock,              \* the workers' clock: one tick per mutation of the source
    active,             \* notification_data.active
    last_pending_hash,  \* notification_data.last_pending_hash
    num_notif_relays,   \* notification_data.num_notif_relays
    num_notif_pending,  \* notification_data.num_notif_pending
    pc,                 \* where calc is: "idle", or "hashed" (between lines 84 and 86)
    hash,               \* calc's local `hash`
    since,              \* history: "changed" | "calling" | "called"
    rebuilt,            \* history: a rebuild read the source and it has not changed since
    last_pass,          \* history: whether the step just taken was a rebuild, the
                        \* list that rebuild scanned and replaced, the entries it
                        \* could not borrow, and whether it was the first rebuild
    borrowed,           \* positions of `active` whose RefCell is mutably borrowed
    to_overlord,        \* GLOBALS.to_overlord: the commands sent and not yet received
    tmp_overlord_receiver, \* GLOBALS.tmp_overlord_receiver: "Some" | "None"
    took,               \* per taker: "no", or what its take() returned
    closed,             \* the command receiver has been dropped
    sent,               \* history: per sender, the number of commands sent
    delivered,          \* history: the commands received, in order, and by whom
    subscribed,         \* a minion holds a live receiver of GLOBALS.to_minions
    unread,             \* the retained messages that receiver has not received yet
    lagged,             \* messages it had not received were overwritten
    tracked,            \* history: one message is followed: "unsent" | "sent"
    mark,               \* its place among the unread ones, oldest first; 0: not there
    due,                \* the minion was subscribed when it was sent
    got,                \* the minion received it
    once,               \* lazy_static's Once: "incomplete" | "running" | "complete" | "poisoned"
    tpc,                \* per thread: where its first access to GLOBALS is
    constructed,        \* the subsystems the running initializer has constructed
    published,          \* the fields of the Globals value stored in the static
    runs,               \* history: how many times the initializer body was entered
    seen,               \* per thread: the fields of the registry it obtained
    waited,             \* history: per thread, it found the initializer running
    upc,                \* where the UI thread is inside calc, step by step
    idx,                \* the for-loop's position in the snapshot (mod.rs:92)
    scan,               \* the inner loop's position in the old list (mod.rs:99, 121)
    new_active,         \* calc's local new_active
    new_entry,          \* calc's local new_entry, while an arm is running
    ui_held,            \* the registry locks the UI thread holds
    wheld,              \* per worker: the registry locks it holds
    wants,              \* per worker: the registry lock it waits for, or "none"
    awaiting,           \* per worker: it is blocked until its item is decided
    nested,             \* history: the UI thread acquired a lock while holding one
    visits,             \* history: entries visited by the two loops in this pass
    filter,             \* notification_data.filter
    shown,              \* the positions of `active` drawn by the last update(), in order
    drawn,              \* history: the step just taken was an update()
    broke,              \* the position at which that update() left its loop, or 0
    settings,           \* GLOBALS.settings: the value behind the PRwLock
    settings_writer,    \* the thread holding that lock for writing, or "none"
    settings_readers,   \* the workers holding that lock for reading
    app_settings,       \* app.settings: the settings page's local copy
    stored,             \* what GLOBALS.storage.read_settings() returns
    spc,                \* where the UI thread is inside SAVE CHANGES
    written,            \* history: the value each save wrote to GLOBALS.settings
    persisted           \* history: how many received commands have been handled

calcVars == <<pending, clock, active, last_pending_hash, num_notif_relays,
              num_notif_pending, pc, hash, since, rebuilt, last_pass, borrowed>>

\* The command channel of the registry.
chanVars == <<to_overlord, tmp_overlord_receiver, took, closed, sent, delivered>>

\* The broadcast channel of the registry, seen from one minion.
bcastVars == <<subscribed, unread, lagged, tracked, mark, due, got>>

\* The one-time initialization of the registry.
initVars == <<once, tpc, constructed, published, runs, seen, waited>>

\* A pass followed step by step, and the registry locks.
passVars == <<upc, idx, scan, new_active, new_entry, ui_held, wheld, wants,
              awaiting, nested, visits>>

\* The Notifications page.
pageVars == <<filter, shown, drawn, broke>>

\* The settings page, the settings lock and the storage behind them.
saveVars == <<settings, settings_writer, settings_readers, app_settings, stored,
              spc, written, persisted>>

\* The state outside the reconciler.
otherVars == <<chanVars, bcastVars, initVars, passVars, pageVars, saveVars>>

\* The state outside the command channel.
exceptChan == <<calcVars, bcastVars, initVars, passVars, pageVars, saveVars>>

\* The state outside the broadcast channel.
exceptBcast == <<calcVars, chanVars, initVars, passVars, pageVars, saveVars>>

\* The state outside the initialization.
exceptInit == <<calcVars, chanVars, bcastVars, passVars, pageVars, saveVars>>

\* What a step-by-step pass and the workers beside it leave alone.
exceptPass == <<pc, since, rebuilt, last_pass, borrowed, chanVars, bcastVars, initVars,
                pageVars, saveVars>>

\* The state outside the Notifications page.
exceptPage == <<calcVars, chanVars, bcastVars, initVars, passVars, saveVars>>

\* What the settings page, the settings lock and the storage leave alone.
exceptSave == <<calcVars, bcastVars, initVars, passVars, pageVars>>

vars == <<calcVars, otherVars>>

notifVars == <<active, last_pending_hash, num_notif_relays, num_notif_pending>>

\* The value of last_pass after any step that is not a rebuild.
NoPass == [done |-> FALSE, old |-> <<>>, locked |-> {}, first |-> FALSE]

\* ------------------------------------------------- the Pending Source side

\* A fixed enumeration of the item universe, used only to encode items.
ItemCode(item) ==
    IF item.kind = "RelayConnectionRequest"
    THEN (IF item.relay = "wss://a" THEN 0 ELSE 1) * 2 + (IF item.jobs = "j1" THEN 0 ELSE 1)
    ELSE IF item.kind = "RelayAuthenticationRequest"
    THEN 4 + (IF item.relay = "wss://a" THEN 0 ELSE 1) * 2
           + (IF item.account = "A" THEN 0 ELSE 1)
    ELSE IF item.kind = "Nip46Request" THEN 8
    ELSE 9

NumItemCodes == 10

\* Fingerprint of the empty Pending Source.
HashSeed == 1

\* One entry's contribution: item and arrival time (1..MaxChanges), never 0.
EntryCode(e) == ItemCode(e.item) * MaxChanges + e.time

HashBase == NumItemCodes * MaxChanges + 1

\* GLOBALS.pending.hash(): an order-sensitive summary of the full contents
\* (items and arrival times).  Within the model's bounds it is collision free.
RECURSIVE HashFrom(_, _)
HashFrom(h, s) ==
    IF s = <<>> THEN h ELSE HashFrom(h * HashBase + EntryCode(Head(s)), Tail(s))

Fingerprint(s) == HashFrom(HashSeed, s)

\* A worker raises a pending item: appended with its arrival time, so the
\* source stays in arrival order.
PendingInsert(item) ==
    /\ clock < MaxChanges
    /\ clock' = clock + 1
    /\ pending' = Append(pending, [item |-> item, time |-> clock + 1])
    /\ since' = "changed"
    /\ rebuilt' = FALSE
    /\ last_pass' = NoPass
    /\ UNCHANGED <<notifVars, pc, hash, borrowed, otherVars>>

RemoveAt(s, i) == SubSeq(s, 1, i - 1) \o SubSeq(s, i + 1, Len(s))

\* A pending item is resolved or withdrawn.
PendingRemove(i) ==
    /\ clock < MaxChanges
    /\ i \in 1..Len(pending)
    /\ clock' = clock + 1
    /\ pending' = RemoveAt(pending, i)
    /\ since' = "changed"
    /\ rebuilt' = FALSE
    /\ last_pass' = NoPass
    /\ UNCHANGED <<notifVars, pc, hash, borrowed, otherVars>>

\* ---------------------------------------------------------------- calc

IsRelayKind(item) ==
    item.kind \in {"RelayConnectionRequest", "RelayAuthenticationRequest"}

\* The match guard of mod.rs:102-105.
ConnMatches(old_item, item) ==
    /\ old_item.kind = "RelayConnectionRequest"
    /\ old_item.relay = item.relay

\* The match guard of mod.rs:124-127.
AuthMatches(old_item, item) ==
    /\ old_item.kind = "RelayAuthenticationRequest"
    /\ old_item.account = item.account
    /\ old_item.relay = item.relay

\* A scan that compares the relay only, whatever the old entry's variant.
EntryMatchesAnyVariant(old_item, item) ==
    /\ IsRelayKind(item)
    /\ IsRelayKind(old_item)
    /\ old_item.relay = item.relay

\* The scan of the arm chosen by the new item's variant.
EntryMatches(old_item, item) ==
    IF item.kind = "RelayConnectionRequest" THEN ConnMatches(old_item, item)
    ELSE IF item.kind = "RelayAuthenticationRequest" THEN AuthMatches(old_item, item)
    ELSE FALSE

\* A scan that stops at the first matching old entry.
CopySettingFirstMatch(item, old, r) ==
    LET ms == {j \in 1..Len(old) : EntryMatches(old[j].item, item)}
    IN  IF ms = {} THEN r
        ELSE old[CHOOSE j \in ms : \A k \in ms : j <= k].remember

\* The inner for-loop (mod.rs:99-112, 121-134): every matching old entry
\* overwrites the new entry's remember, in list order; there is no break.
RECURSIVE CopySetting(_, _, _)
CopySetting(item, old, r) ==
    IF old = <<>> THEN r
    ELSE CopySetting(item, Tail(old),
                     IF EntryMatches(Head(old).item, item) THEN Head(old).remember ELSE r)

\* An inspection that never fails.
TryBorrowAlwaysOk(j, locked) == TRUE

\* entry.try_borrow() (mod.rs:100, 122) on the old entry at position j: Ok unless
\* a mutable borrow of that RefCell is alive.
TryBorrowOk(j, locked) == j \notin locked

\* The old entries the scan gets to inspect, in list order: the Err(_) arm
\* (mod.rs:110, 132) does nothing and the scan goes on with the next entry.
RECURSIVE Inspected(_, _, _)
Inspected(old, locked, j) ==
    IF j > Len(old) THEN <<>>
    ELSE (IF TryBorrowOk(j, locked) THEN <<old[j]>> ELSE <<>>)
         \o Inspected(old, locked, j + 1)

\* The remember value a freshly constructed Notification starts with.
DefaultRemember == FALSE

\* ConnRequest::new / AuthRequest::new / Nip46Request::new / Pending::new, called
\* with (item.clone(), *time) at mod.rs:95, 117, 143, 147.
NewNotification(item, time) == [item |-> item, time |-> time, remember |-> DefaultRemember]

\* Every arm copying the setting of an old entry that wraps an equal item.
BuildEntryCopiesAll(item, time, old) ==
    [NewNotification(item, time) EXCEPT
        !.remember = \E j \in 1..Len(old) : old[j].item = item /\ old[j].remember]

\* One arm of the match (mod.rs:93-150): the entry pushed for one snapshot item.
BuildEntry(item, time, old) ==
    LET fresh == NewNotification(item, time)
    IN  IF IsRelayKind(item)
        THEN [fresh EXCEPT !.remember = CopySetting(item, old, fresh.remember)]
        ELSE fresh

\* A gate that takes a recorded 0 for "nothing to do".
HashChangedUnlessZero == last_pending_hash # hash /\ last_pending_hash # 0

\* A gate that always lets the pass run.
HashChangedAlways == TRUE

\* mod.rs:86
HashChanged == last_pending_hash # hash

\* mod.rs:84
CalcReadHash ==
    /\ pc = "idle"
    /\ hash' = Fingerprint(pending)
    /\ pc' = "hashed"
    /\ since' = IF since = "changed" THEN "calling" ELSE since
    /\ last_pass' = NoPass
    /\ UNCHANGED <<pending, clock, notifVars, rebuilt, borrowed, otherVars>>

\* mod.rs:86, 155: the hash is the recorded one; calc returns.
CalcSkip ==
    /\ pc = "hashed"
    /\ ~HashChanged
    /\ pc' = "idle"
    /\ hash' = 0
    /\ since' = IF since = "calling" THEN "called" ELSE since
    /\ last_pass' = NoPass
    /\ UNCHANGED <<pending, clock, notifVars, rebuilt, borrowed, otherVars>>

\* A pass that does not reset the counters.
CalcStartKeepCounts ==
    [new_active |-> <<>>, num_notif_relays |-> num_notif_relays,
     num_notif_pending |-> num_notif_pending]

\* mod.rs:87-90: the counters are reset and new_active is created empty.
CalcStart == [new_active |-> <<>>, num_notif_relays |-> 0, num_notif_pending |-> 0]

\* An iteration that puts the new entry at the front of new_active.
CalcItemPrepends(acc, e, old) ==
    [new_active |-> <<BuildEntry(e.item, e.time, old)>> \o acc.new_active,
     num_notif_relays |->
         IF IsRelayKind(e.item) THEN acc.num_notif_relays + 1 ELSE acc.num_notif_relays,
     num_notif_pending |->
         IF IsRelayKind(e.item) THEN acc.num_notif_pending ELSE acc.num_notif_pending + 1]

\* An iteration whose Nip46Request arm does not count its entry.
CalcItemUncounted(acc, e, old) ==
    [new_active |-> Append(acc.new_active, BuildEntry(e.item, e.time, old)),
     num_notif_relays |->
         IF IsRelayKind(e.item) THEN acc.num_notif_relays + 1 ELSE acc.num_notif_relays,
     num_notif_pending |->
         IF IsRelayKind(e.item) \/ e.item.kind = "Nip46Request"
         THEN acc.num_notif_pending ELSE acc.num_notif_pending + 1]

\* mod.rs:93-150: one iteration of the for-loop, on calc's working values.
CalcItem(acc, e, old) ==
    [new_active |-> Append(acc.new_active, BuildEntry(e.item, e.time, old)),
     num_notif_relays |->
         IF IsRelayKind(e.item) THEN acc.num_notif_relays + 1 ELSE acc.num_notif_relays,
     num_notif_pending |->
         IF IsRelayKind(e.item) THEN acc.num_notif_pending ELSE acc.num_notif_pending + 1]

\* mod.rs:92-151: the for-loop over the snapshot, in order.
RECURSIVE CalcLoop(_, _, _)
CalcLoop(acc, snapshot, old) ==
    IF snapshot = <<>> THEN acc
    ELSE CalcLoop(CalcItem(acc, Head(snapshot), old), Tail(snapshot), old)

\* An install that extends the old list instead of replacing it.
InstalledAppended(built) == active \o built.new_active

\* mod.rs:153: the list that replaces notification_data.active.
Installed(built) == built.new_active

\* mod.rs:86-154: the hash differs; the list is rebuilt from the snapshot read
\* under the read guard, then the list and the recorded hash are replaced.
\* calc, draw_icons and update all take &mut GossipUi on the one UI thread and
\* the guard is held for the whole loop, so nothing observes the loop's steps.
CalcRebuild ==
    /\ pc = "hashed"
    /\ HashChanged
    /\ LET built == CalcLoop(CalcStart, pending, Inspected(active, borrowed, 1))
       IN  /\ active' = Installed(built)
           /\ num_notif_relays' = built.num_notif_relays
           /\ num_notif_pending' = built.num_notif_pending
    /\ last_pending_hash' = hash
    /\ pc' = "idle"
    /\ hash' = 0
    /\ since' = IF since = "calling" THEN "called" ELSE since
    /\ rebuilt' = TRUE
    /\ last_pass' = [done |-> TRUE, old |-> active, locked |-> borrowed,
                     first |-> (last_pending_hash = 0)]
    /\ borrowed' = {}
    /\ UNCHANGED <<pending, clock, otherVars>>

\* ------------------------------------------------------------- the readers

\* draw_icons and update run on the thread that runs calc, between calc calls.
ReaderCanRun == pc = "idle"

\* update -> entry.borrow_mut().show(): the user flips an entry's remember switch.
SetRemember(i, v) ==
    /\ ReaderCanRun
    /\ i \in 1..Len(active)
    /\ i \notin borrowed
    /\ active[i].remember # v
    /\ active' = [active EXCEPT ![i].remember = v]
    /\ last_pass' = NoPass
    /\ UNCHANGED <<pending, clock, last_pending_hash, num_notif_relays,
                   num_notif_pending, pc, hash, since, rebuilt, borrowed, otherVars>>

\* A mutable borrow of an entry's RefCell is taken and kept alive by another
\* holder of the NotificationHandle (an Rc clone).
HoldBorrow(i) ==
    /\ i \in 1..Len(active)
    /\ i \notin borrowed
    /\ borrowed' = borrowed \cup {i}
    /\ last_pass' = NoPass
    /\ UNCHANGED <<pending, clock, notifVars, pc, hash, since, rebuilt, otherVars>>

\* That borrow ends.
ReleaseBorrow(i) ==
    /\ i \in borrowed
    /\ borrowed' = borrowed \ {i}
    /\ last_pass' = NoPass
    /\ UNCHANGED <<pending, clock, notifVars, pc, hash, since, rebuilt, otherVars>>

\* ------------------------------------------------- the command channel

\* The threads that hold a clone of GLOBALS.to_overlord and send on it.
Senders == {"ui", "minion"}

\* The threads that lock tmp_overlord_receiver and take() its content.
Takers == {"overlord", "other"}

\* A send on a bounded channel of capacity 1: the sender waits while it is full.
SendCommandBounded(s) ==
    /\ sent[s] < MaxSends
    /\ Len(to_overlord) < 1
    /\ sent' = [sent EXCEPT ![s] = @ + 1]
    /\ to_overlord' =
         IF closed THEN to_overlord
         ELSE Append(to_overlord, [from |-> s, n |-> sent[s] + 1])
    /\ UNCHANGED <<tmp_overlord_receiver, took, closed, delivered, exceptChan>>

\* GLOBALS.to_overlord.send(..) (settings/mod.rs:56) on the UnboundedSender of
\* globals.rs:47, 128: the command is queued whatever the queue's length; with
\* the receiver dropped send returns Err, which the caller ignores (let _ =).
SendCommand(s) ==
    /\ sent[s] < MaxSends
    /\ sent' = [sent EXCEPT ![s] = @ + 1]
    /\ to_overlord' =
         IF closed THEN to_overlord
         ELSE Append(to_overlord, [from |-> s, n |-> sent[s] + 1])
    /\ UNCHANGED <<tmp_overlord_receiver, took, closed, delivered, exceptChan>>

\* GLOBALS.tmp_overlord_receiver.lock().take(): the taker gets the slot's
\* content and leaves None.
TakeReceiver(t) ==
    /\ took[t] = "no"
    /\ took' = [took EXCEPT ![t] = tmp_overlord_receiver]
    /\ tmp_overlord_receiver' = "None"
    /\ UNCHANGED <<to_overlord, closed, sent, delivered, exceptChan>>

\* The holder of the receiver receives the oldest undelivered command.
RecvCommand(t) ==
    /\ took[t] = "Some"
    /\ ~closed
    /\ to_overlord # <<>>
    /\ delivered' = Append(delivered, [cmd |-> Head(to_overlord), by |-> t])
    /\ to_overlord' = Tail(to_overlord)
    /\ UNCHANGED <<tmp_overlord_receiver, took, closed, sent, exceptChan>>

\* The holder of the receiver drops it: the channel is closed and what was
\* undelivered is discarded.
DropReceiver(t) ==
    /\ took[t] = "Some"
    /\ ~closed
    /\ closed' = TRUE
    /\ to_overlord' = <<>>
    /\ UNCHANGED <<tmp_overlord_receiver, took, sent, delivered, exceptChan>>

\* ------------------------------------------------ the broadcast channel

\* A channel that retains half as many messages.
BroadcastCapacityHalved == 256 \div 2

\* globals.rs:125: broadcast::channel(256), the number of messages retained.
BroadcastCapacity == 256

\* GLOBALS.to_minions.send(..).  The message is retained for every live receiver;
\* with the buffer full of messages the minion has not received, the oldest of
\* them is overwritten.  With no receiver nothing is retained and send returns
\* Err to its caller.  `track` makes this message the one that is followed.
Broadcast(track) ==
    /\ track => tracked = "unsent"
    /\ tracked' = IF track THEN "sent" ELSE tracked
    /\ due' = IF track THEN subscribed ELSE due
    /\ IF ~subscribed
       THEN UNCHANGED <<unread, lagged, mark>>
       ELSE IF unread < BroadcastCapacity
       THEN /\ unread' = unread + 1
            /\ mark' = IF track THEN unread + 1 ELSE mark
            /\ UNCHANGED lagged
       ELSE /\ unread' = unread
            /\ lagged' = TRUE
            /\ mark' = IF track THEN unread ELSE IF mark > 0 THEN mark - 1 ELSE 0
    /\ UNCHANGED <<subscribed, got, exceptBcast>>

\* A minion calls GLOBALS.to_minions.subscribe(): it is due the messages sent
\* from now on.
Subscribe ==
    /\ ~subscribed
    /\ subscribed' = TRUE
    /\ unread' = 0
    /\ lagged' = FALSE
    /\ mark' = 0
    /\ UNCHANGED <<tracked, due, got, exceptBcast>>

\* The minion's recv(): Err(Lagged) once if messages were overwritten, else the
\* oldest message it has not received.
RecvBroadcast ==
    /\ subscribed
    /\ lagged \/ unread > 0
    /\ IF lagged
       THEN /\ lagged' = FALSE
            /\ UNCHANGED <<unread, mark, got>>
       ELSE /\ unread' = unread - 1
            /\ mark' = IF mark > 0 THEN mark - 1 ELSE 0
            /\ got' = (got \/ mark = 1)
            /\ UNCHANGED lagged
    /\ UNCHANGED <<subscribed, tracked, due, exceptBcast>>

\* The minion ends and drops its receiver.
Unsubscribe ==
    /\ subscribed
    /\ subscribed' = FALSE
    /\ unread' = 0
    /\ lagged' = FALSE
    /\ mark' = 0
    /\ UNCHANGED <<tracked, due, got, exceptBcast>>

\* ------------------------------------------- initialization of GLOBALS

\* The threads that may be the first to touch GLOBALS.
Threads == {"main", "ui", "overlord", "minion"}

\* globals.rs:125, 128: the two channels.
ChannelFields == {"to_minions", "to_overlord", "tmp_overlord_receiver"}

\* The fields of the struct literal (globals.rs:135-165) besides db, storage and
\* the channels: their constructors do not fail.
PlainFields ==
    {"first_run", "people", "connected_relays", "relay_picker", "shutting_down",
     "settings", "signer", "dismissed", "feed", "fetcher", "failed_avatars",
     "pixels_per_point_times_100", "status_queue", "bytes_read", "delegation",
     "media", "people_search_results", "note_search_results",
     "ui_notes_to_invalidate", "ui_people_to_invalidate", "current_zap",
     "hashtag_regex"}

\* The fields of Globals (globals.rs:34-119).
GlobalsFields == ChannelFields \cup PlainFields \cup {"db", "storage"}

\* A first access that tests "not complete" and runs the initializer itself.
AccessUnsynchronized(t) ==
    /\ tpc[t] = "start"
    /\ IF once = "complete"
       THEN /\ tpc' = [tpc EXCEPT ![t] = "ready"]
            /\ seen' = [seen EXCEPT ![t] = published]
            /\ UNCHANGED <<once, runs, waited>>
       ELSE /\ once' = "running"
            /\ runs' = runs + 1
            /\ tpc' = [tpc EXCEPT ![t] = "channels"]
            /\ UNCHANGED <<seen, waited>>
    /\ UNCHANGED <<constructed, published, exceptInit>>

\* globals.rs:121-122: a thread dereferences GLOBALS.  lazy_static runs the
\* initializer under a Once: the first thread runs the body, a thread that finds
\* it running waits, a thread that finds it complete gets the stored value, and
\* a thread that finds it poisoned panics.
Access(t) ==
    /\ tpc[t] = "start"
    /\ IF once = "incomplete"
       THEN /\ once' = "running"
            /\ runs' = runs + 1
            /\ tpc' = [tpc EXCEPT ![t] = "channels"]
            /\ UNCHANGED <<seen, waited>>
       ELSE IF once = "running"
       THEN /\ tpc' = [tpc EXCEPT ![t] = "blocked"]
            /\ waited' = [waited EXCEPT ![t] = TRUE]
            /\ UNCHANGED <<once, runs, seen>>
       ELSE IF once = "complete"
       THEN /\ tpc' = [tpc EXCEPT ![t] = "ready"]
            /\ seen' = [seen EXCEPT ![t] = published]
            /\ UNCHANGED <<once, runs, waited>>
       ELSE /\ tpc' = [tpc EXCEPT ![t] = "panicked"]
            /\ UNCHANGED <<once, runs, seen, waited>>
    /\ UNCHANGED <<constructed, published, exceptInit>>

\* globals.rs:125, 128
InitChannels(t) ==
    /\ tpc[t] = "channels"
    /\ constructed' = constructed \cup ChannelFields
    /\ tpc' = [tpc EXCEPT ![t] = "storage"]
    /\ UNCHANGED <<once, published, runs, seen, waited, exceptInit>>

\* The initializer panics: what it had constructed is dropped, the Once is
\* poisoned and nothing is stored.
InitPanics(t) ==
    /\ once' = "poisoned"
    /\ constructed' = {}
    /\ tpc' = [tpc EXCEPT ![t] = "panicked"]
    /\ UNCHANGED <<published, runs, seen, waited, exceptInit>>

\* globals.rs:130-133: Storage::new(), Err(e) => panic!
InitStorage(t, ok) ==
    /\ tpc[t] = "storage"
    /\ IF ok
       THEN /\ constructed' = constructed \cup {"storage"}
            /\ tpc' = [tpc EXCEPT ![t] = "db"]
            /\ UNCHANGED <<once, published, runs, seen, waited, exceptInit>>
       ELSE InitPanics(t)

\* globals.rs:136-137: init_database().expect(..)
InitDb(t, ok) ==
    /\ tpc[t] = "db"
    /\ IF ok
       THEN /\ constructed' = constructed \cup {"first_run", "db"}
            /\ tpc' = [tpc EXCEPT ![t] = "fields"]
            /\ UNCHANGED <<once, published, runs, seen, waited, exceptInit>>
       ELSE InitPanics(t)

\* globals.rs:138-165: the remaining fields; the Globals value is complete.
InitFields(t) ==
    /\ tpc[t] = "fields"
    /\ constructed' = constructed \cup PlainFields
    /\ tpc' = [tpc EXCEPT ![t] = "publish"]
    /\ UNCHANGED <<once, published, runs, seen, waited, exceptInit>>

\* globals.rs:166: the body returns; the value is stored and the Once completes.
InitPublish(t) ==
    /\ tpc[t] = "publish"
    /\ published' = constructed
    /\ constructed' = {}
    /\ once' = "complete"
    /\ tpc' = [tpc EXCEPT ![t] = "ready"]
    /\ seen' = [seen EXCEPT ![t] = constructed]
    /\ UNCHANGED <<runs, waited, exceptInit>>

\* A thread that waited on the Once goes on when the initializer has ended.
Wake(t) ==
    /\ tpc[t] = "blocked"
    /\ once \in {"complete", "poisoned"}
    /\ IF once = "complete"
       THEN /\ tpc' = [tpc EXCEPT ![t] = "ready"]
            /\ seen' = [seen EXCEPT ![t] = published]
       ELSE /\ tpc' = [tpc EXCEPT ![t] = "panicked"]
            /\ UNCHANGED seen
    /\ UNCHANGED <<once, constructed, published, runs, waited, exceptInit>>

\* ------------------------------------- a pass step by step, and the locks

\* The registry locks of the model: the Pending Source's, and two of the
\* Globals fields with a lock of their own (globals.rs:39, 67).
Locks == {"pending", "settings", "db"}

Workers == {"minion", "overlord"}

NoEntry == [item |-> "none", time |-> 0, remember |-> FALSE]

NoVisits == [outer |-> 0, inner |-> 0]

\* No worker holds lock l (workers lock for writing).
NoWriter(l) == \A w \in Workers : l \notin wheld[w]

\* Nobody holds lock l.
LockFree(l) == NoWriter(l) /\ l \notin ui_held

passLocals == <<idx, scan, new_active, new_entry>>

workerVars == <<wheld, wants, awaiting>>

\* The UI thread calls calc (mod.rs:83).
PassCall ==
    /\ upc = "idle"
    /\ upc' = "hash"
    /\ visits' = NoVisits
    /\ UNCHANGED <<pending, clock, notifVars, hash, passLocals, ui_held, workerVars,
                   nested, exceptPass>>

\* A hash() whose read guard is kept by the caller.
PassHashKeepsGuard ==
    /\ upc = "hash"
    /\ NoWriter("pending")
    /\ hash' = Fingerprint(pending)
    /\ nested' = (nested \/ ui_held # {})
    /\ ui_held' = ui_held \cup {"pending"}
    /\ upc' = "gate"
    /\ UNCHANGED <<pending, clock, notifVars, passLocals, workerVars, visits,
                   exceptPass>>

\* mod.rs:84: GLOBALS.pending.hash().  The source is locked inside the call and
\* unlocked when it returns its u64; the thread waits while a worker writes.
PassHash ==
    /\ upc = "hash"
    /\ NoWriter("pending")
    /\ hash' = Fingerprint(pending)
    /\ nested' = (nested \/ ui_held # {})
    /\ upc' = "gate"
    /\ UNCHANGED <<pending, clock, notifVars, passLocals, ui_held, workerVars, visits,
                   exceptPass>>

\* mod.rs:86-90, 155: the gate; on a changed hash the counters are reset and
\* new_active is created.
PassGate ==
    /\ upc = "gate"
    /\ IF HashChanged
       THEN /\ num_notif_relays' = CalcStart.num_notif_relays
            /\ num_notif_pending' = CalcStart.num_notif_pending
            /\ new_active' = CalcStart.new_active
            /\ upc' = "read"
            /\ UNCHANGED hash
       ELSE /\ upc' = "idle"
            /\ hash' = 0
            /\ UNCHANGED <<num_notif_relays, num_notif_pending, new_active>>
    /\ UNCHANGED <<pending, clock, active, last_pending_hash, idx, scan, new_entry,
                   ui_held, workerVars, nested, visits, exceptPass>>

\* mod.rs:92: GLOBALS.pending.read(); the guard lives until the loop ends.  The
\* thread waits while a worker writes.
PassAcquireRead ==
    /\ upc = "read"
    /\ NoWriter("pending")
    /\ nested' = (nested \/ ui_held # {})
    /\ ui_held' = ui_held \cup {"pending"}
    /\ idx' = 1
    /\ upc' = "loop"
    /\ UNCHANGED <<pending, clock, notifVars, hash, scan, new_active, new_entry,
                   workerVars, visits, exceptPass>>

\* mod.rs:93-96, 116-118, 138-149: the loop takes the next snapshot entry; the
\* arm creates new_entry and counts it; a keyed arm goes on to scan the old
\* list, the other arms push at once.
PassEntry ==
    /\ upc = "loop"
    /\ idx <= Len(pending)
    /\ visits' = [visits EXCEPT !.outer = @ + 1]
    /\ LET e == pending[idx]
           fresh == NewNotification(e.item, e.time)
       IN  IF IsRelayKind(e.item)
           THEN /\ num_notif_relays' = num_notif_relays + 1
                /\ new_entry' = fresh
                /\ scan' = 1
                /\ upc' = "scan"
                /\ UNCHANGED <<num_notif_pending, new_active, idx>>
           ELSE /\ num_notif_pending' = num_notif_pending + 1
                /\ new_active' = Append(new_active, fresh)
                /\ idx' = idx + 1
                /\ UNCHANGED <<num_notif_relays, new_entry, scan, upc>>
    /\ UNCHANGED <<pending, clock, active, last_pending_hash, hash, ui_held,
                   workerVars, nested, exceptPass>>

\* mod.rs:99-111, 121-133: the scan inspects the next old entry and copies its
\* setting on a match.
PassScan ==
    /\ upc = "scan"
    /\ scan <= Len(active)
    /\ visits' = [visits EXCEPT !.inner = @ + 1]
    /\ new_entry' =
         IF EntryMatches(active[scan].item, new_entry.item)
         THEN [new_entry EXCEPT !.remember = active[scan].remember]
         ELSE new_entry
    /\ scan' = scan + 1
    /\ UNCHANGED <<pending, clock, notifVars, hash, idx, new_active, ui_held, upc,
                   workerVars, nested, exceptPass>>

\* mod.rs:112-114, 134-136: the scan is over; new_entry is pushed.
PassPush ==
    /\ upc = "scan"
    /\ scan > Len(active)
    /\ new_active' = Append(new_active, new_entry)
    /\ new_entry' = NoEntry
    /\ scan' = 0
    /\ idx' = idx + 1
    /\ upc' = "loop"
    /\ UNCHANGED <<pending, clock, notifVars, hash, ui_held, workerVars, nested,
                   visits, exceptPass>>

\* A loop that ends before it has taken the last snapshot entry.
PassLoopEndEarly ==
    /\ upc = "loop"
    /\ idx >= Len(pending)
    /\ ui_held' = ui_held \ {"pending"}
    /\ idx' = 0
    /\ upc' = "install"
    /\ UNCHANGED <<pending, clock, notifVars, hash, scan, new_active, new_entry,
                   workerVars, nested, visits, exceptPass>>

\* mod.rs:151: the snapshot is exhausted; the read guard is dropped.
PassLoopEnd ==
    /\ upc = "loop"
    /\ idx > Len(pending)
    /\ ui_held' = ui_held \ {"pending"}
    /\ idx' = 0
    /\ upc' = "install"
    /\ UNCHANGED <<pending, clock, notifVars, hash, scan, new_active, new_entry,
                   workerVars, nested, visits, exceptPass>>

\* mod.rs:153-155: the list and the hash are replaced; calc returns.
PassInstall ==
    /\ upc = "install"
    /\ active' = new_active
    /\ last_pending_hash' = hash
    /\ new_active' = <<>>
    /\ hash' = 0
    /\ upc' = "idle"
    /\ UNCHANGED <<pending, clock, num_notif_relays, num_notif_pending, idx, scan,
                   new_entry, ui_held, workerVars, nested, visits, exceptPass>>

\* The steps of calc that take no lock.
PassStep ==
    PassGate \/ PassEntry \/ PassScan \/ PassPush \/ PassLoopEnd \/ PassInstall

\* A worker starts to wait for a lock.  The Pending Source is locked only inside
\* its own methods, so a worker inside one asks for no other lock.
WorkerRequest(w, l) ==
    /\ ~awaiting[w]
    /\ wants[w] = "none"
    /\ l \notin wheld[w]
    /\ "pending" \notin wheld[w]
    /\ wants' = [wants EXCEPT ![w] = l]
    /\ UNCHANGED <<pending, clock, notifVars, hash, upc, passLocals, ui_held, wheld,
                   awaiting, nested, visits, exceptPass>>

\* The lock a worker waits for is free: the worker gets it.
WorkerGrant(w) ==
    /\ wants[w] # "none"
    /\ LockFree(wants[w])
    /\ wheld' = [wheld EXCEPT ![w] = @ \cup {wants[w]}]
    /\ wants' = [wants EXCEPT ![w] = "none"]
    /\ UNCHANGED <<pending, clock, notifVars, hash, upc, passLocals, ui_held,
                   awaiting, nested, visits, exceptPass>>

\* A worker unlocks a lock it holds.
WorkerRelease(w, l) ==
    /\ l \in wheld[w]
    /\ wants[w] = "none"
    /\ wheld' = [wheld EXCEPT ![w] = @ \ {l}]
    /\ UNCHANGED <<pending, clock, notifVars, hash, upc, passLocals, ui_held, wants,
                   awaiting, nested, visits, exceptPass>>

\* A worker, inside the Pending Source, appends an item, unlocks, and blocks
\* until the item is decided.
WorkerInsert(w, item) ==
    /\ "pending" \in wheld[w]
    /\ clock < MaxPassChanges
    /\ clock' = clock + 1
    /\ pending' = Append(pending, [item |-> item, time |-> clock + 1])
    /\ wheld' = [wheld EXCEPT ![w] = @ \ {"pending"}]
    /\ awaiting' = [awaiting EXCEPT ![w] = TRUE]
    /\ UNCHANGED <<notifVars, hash, upc, passLocals, ui_held, wants, nested, visits,
                   exceptPass>>

\* A worker, inside the Pending Source, removes an entry and unlocks.
WorkerRemove(w, i) ==
    /\ "pending" \in wheld[w]
    /\ clock < MaxPassChanges
    /\ i \in 1..Len(pending)
    /\ clock' = clock + 1
    /\ pending' = RemoveAt(pending, i)
    /\ wheld' = [wheld EXCEPT ![w] = @ \ {"pending"}]
    /\ UNCHANGED <<notifVars, hash, upc, passLocals, ui_held, wants, awaiting,
                   nested, visits, exceptPass>>

\* The user decides a worker's item on the Notifications page (between calc
\* calls): the worker goes on.
Decide(w) ==
    /\ upc = "idle"
    /\ awaiting[w]
    /\ awaiting' = [awaiting EXCEPT ![w] = FALSE]
    /\ UNCHANGED <<pending, clock, notifVars, hash, upc, passLocals, ui_held, wheld,
                   wants, nested, visits, exceptPass>>

\* ------------------------------------------------- the Notifications page

\* mod.rs:24-31
NotificationFilter ==
    {"All", "RelayAuthenticationRequest", "RelayConnectionRequest", "Nip46Request",
     "PendingItem"}

\* The category of an entry: its wrapper type (ConnRequest, AuthRequest,
\* Nip46Request, Pending).
Category(entry) ==
    IF entry.item.kind \in {"RelayConnectionRequest", "RelayAuthenticationRequest",
                            "Nip46Request"}
    THEN entry.item.kind
    ELSE "PendingItem"

\* Notification::matches_filter
MatchesFilter(entry, f) == f = "All" \/ f = Category(entry)

\* notification_filter_combo (mod.rs:421-453): the user selects a filter.
SetFilter(f) ==
    /\ ReaderCanRun
    /\ f # filter
    /\ filter' = f
    /\ drawn' = FALSE
    /\ UNCHANGED <<shown, broke, exceptPage>>

\* The entries a loop without the filter test draws.
ShownUnfiltered(list, f, nav, i) == [k \in 1..Len(list) |-> k]

\* mod.rs:319-342: the loop of update() from position i on: an entry that does
\* not match is skipped (continue); a matching one is drawn and shown, and the
\* loop is left (break) when its show() returned a page (positions in nav).
RECURSIVE Shown(_, _, _, _)
Shown(list, f, nav, i) ==
    IF i > Len(list) THEN <<>>
    ELSE IF ~MatchesFilter(list[i], f) THEN Shown(list, f, nav, i + 1)
    ELSE <<i>> \o (IF i \in nav THEN <<>> ELSE Shown(list, f, nav, i + 1))

\* update() (mod.rs:314-347) draws one frame of the Notifications page.
UpdatePage(nav) ==
    /\ ReaderCanRun
    /\ LET s == Shown(active, filter, nav, 1)
       IN  /\ shown' = s
           /\ broke' = IF s # <<>> /\ s[Len(s)] \in nav THEN s[Len(s)] ELSE 0
    /\ drawn' = TRUE
    /\ UNCHANGED <<filter, exceptPage>>

\* ------------------------------------------------------ the settings page

\* The values a Settings struct takes here.
SettingsValues == {"default", "a", "b"}

\* The user edits a field on one of the settings tabs (settings/mod.rs:61-).
EditSettings(v) ==
    /\ spc = "page"
    /\ app_settings # v
    /\ app_settings' = v
    /\ UNCHANGED <<settings, settings_writer, settings_readers, stored, spc, written,
                   persisted, chanVars, exceptSave>>

\* settings/mod.rs:18-19: both buttons are offered only while the stored
\* settings differ from the page's copy.
ButtonsOffered == stored # app_settings

\* settings/mod.rs:20-21, REVERT CHANGES: the page's copy is replaced by a clone
\* of the global settings, read under the read lock.
RevertChanges ==
    /\ spc = "page"
    /\ ButtonsOffered
    /\ settings_writer = "none"
    /\ app_settings' = settings
    /\ UNCHANGED <<settings, settings_writer, settings_readers, stored, spc, written,
                   persisted, chanVars, exceptSave>>

\* settings/mod.rs:38-50, SAVE CHANGES clicked: the DPI statements touch only
\* the egui context and app.original_dpi_value.
SaveClicked ==
    /\ spc = "page"
    /\ ButtonsOffered
    /\ sent["ui"] < MaxSends
    /\ spc' = "write"
    /\ UNCHANGED <<settings, settings_writer, settings_readers, app_settings, stored,
                   written, persisted, chanVars, exceptSave>>

\* settings/mod.rs:53, GLOBALS.settings.write(): the UI thread waits until no
\* reader and no writer holds the lock.
SaveLock ==
    /\ spc = "write"
    /\ settings_writer = "none"
    /\ settings_readers = {}
    /\ settings_writer' = "ui"
    /\ spc' = "locked"
    /\ UNCHANGED <<settings, settings_readers, app_settings, stored, written,
                   persisted, chanVars, exceptSave>>

\* A save whose write guard is bound to a name and lives to the end of the block.
SaveStoreKeepsGuard ==
    /\ spc = "locked"
    /\ settings' = app_settings
    /\ written' = Append(written, app_settings)
    /\ spc' = "send"
    /\ UNCHANGED <<settings_writer, settings_readers, app_settings, stored, persisted,
                   chanVars, exceptSave>>

\* settings/mod.rs:53, *guard = app.settings.clone(); the guard is a temporary
\* and is dropped at the end of the statement.
SaveStore ==
    /\ spc = "locked"
    /\ settings' = app_settings
    /\ written' = Append(written, app_settings)
    /\ settings_writer' = "none"
    /\ spc' = "send"
    /\ UNCHANGED <<settings_readers, app_settings, stored, persisted, chanVars,
                   exceptSave>>

\* settings/mod.rs:56, let _ = GLOBALS.to_overlord.send(SaveSettings): the send
\* of SendCommand by the UI thread, which ends the handler.
SaveSend ==
    /\ spc = "send"
    /\ sent' = [sent EXCEPT !["ui"] = @ + 1]
    /\ to_overlord' =
         IF closed THEN to_overlord
         ELSE Append(to_overlord, [from |-> "ui", n |-> sent["ui"] + 1])
    /\ spc' = "page"
    /\ UNCHANGED <<tmp_overlord_receiver, took, closed, delivered, settings,
                   settings_writer, settings_readers, app_settings, stored, written,
                   persisted, exceptSave>>

\* A worker takes GLOBALS.settings.read() and keeps the guard for a while.
SettingsRead(w) ==
    /\ w \notin settings_readers
    /\ settings_writer = "none"
    /\ settings_readers' = settings_readers \cup {w}
    /\ UNCHANGED <<settings, settings_writer, app_settings, stored, spc, written,
                   persisted, chanVars, exceptSave>>

\* It drops the guard.
SettingsReadDone(w) ==
    /\ w \in settings_readers
    /\ settings_readers' = settings_readers \ {w}
    /\ UNCHANGED <<settings, settings_writer, app_settings, stored, spc, written,
                   persisted, chanVars, exceptSave>>

\* The coordinator handles a received command: for SaveSettings (the commands of
\* the UI thread here) it writes the global settings, read under the read lock,
\* to the storage; any other command leaves the storage alone.
HandleCommand ==
    /\ persisted < Len(delivered)
    /\ settings_writer = "none"
    /\ persisted' = persisted + 1
    /\ stored' = IF delivered[persisted + 1].cmd.from = "ui" THEN settings ELSE stored
    /\ UNCHANGED <<settings, settings_writer, settings_readers, app_settings, spc,
                   written, chanVars, exceptSave>>

\* ------------------------------------------------------------ specification

\* An initializer that drops the receiver and stores None.
CommandInitNoReceiver ==
    /\ to_overlord = <<>>
    /\ tmp_overlord_receiver = "None"
    /\ took = [t \in {"overlord", "other"} |-> "no"]
    /\ closed = TRUE
    /\ sent = [s \in {"ui", "minion"} |-> 0]
    /\ delivered = <<>>

\* globals.rs:128, 139-140: mpsc::unbounded_channel(); the sender is stored in
\* to_overlord, the receiver in tmp_overlord_receiver as Some.
CommandInit ==
    /\ to_overlord = <<>>
    /\ tmp_overlord_receiver = "Some"
    /\ took = [t \in {"overlord", "other"} |-> "no"]
    /\ closed = FALSE
    /\ sent = [s \in {"ui", "minion"} |-> 0]
    /\ delivered = <<>>

\* globals.rs:125, 138: broadcast::channel(256); the sender is stored in
\* to_minions and the initial receiver is dropped, so nobody is subscribed.
BroadcastInit ==
    /\ subscribed = FALSE
    /\ unread = 0
    /\ lagged = FALSE
    /\ tracked = "unsent"
    /\ mark = 0
    /\ due = FALSE
    /\ got = FALSE

\* Before the first access to GLOBALS: nothing is constructed or stored.
LazyInit ==
    /\ once = "incomplete"
    /\ tpc = [t \in Threads |-> "start"]
    /\ constructed = {}
    /\ published = {}
    /\ runs = 0
    /\ seen = [t \in Threads |-> {}]
    /\ waited = [t \in Threads |-> FALSE]

\* calc is not running, no lock is held.
PassInit ==
    /\ upc = "idle"
    /\ idx = 0
    /\ scan = 0
    /\ new_active = <<>>
    /\ new_entry = NoEntry
    /\ ui_held = {}
    /\ wheld = [w \in Workers |-> {}]
    /\ wants = [w \in Workers |-> "none"]
    /\ awaiting = [w \in Workers |-> FALSE]
    /\ nested = FALSE
    /\ visits = NoVisits

\* mod.rs:75: filter: Default::default(), which is All; nothing drawn yet.
PageInit ==
    /\ filter = "All"
    /\ shown = <<>>
    /\ drawn = FALSE
    /\ broke = 0

\* globals.rs:145: settings: PRwLock::new(Settings::default()); the page's copy
\* and the storage hold the same value, nobody holds the lock, no save is
\* under way.
SaveInit ==
    /\ settings = "default"
    /\ settings_writer = "none"
    /\ settings_readers = {}
    /\ app_settings = "default"
    /\ stored = "default"
    /\ spc = "page"
    /\ written = <<>>
    /\ persisted = 0

Init ==
    /\ CommandInit
    /\ BroadcastInit
    /\ LazyInit
    /\ PassInit
    /\ PageInit
    /\ SaveInit
    /\ pending = <<>>
    /\ clock = 0
    /\ active = <<>>
    /\ last_pending_hash = 0
    /\ num_notif_relays = 0
    /\ num_notif_pending = 0
    /\ pc = "idle"
    /\ hash = 0
    /\ since = "changed"
    /\ rebuilt = FALSE
    /\ last_pass = NoPass
    /\ borrowed = {}

Next ==
    \/ \E item \in PendingItems : PendingInsert(item)
    \/ \E i \in 1..Len(pending) : PendingRemove(i)
    \/ CalcReadHash
    \/ CalcSkip
    \/ CalcRebuild
    \/ \E i \in 1..Len(active), v \in BOOLEAN : SetRemember(i, v)

Spec == Init /\ [][Next]_vars

\* The reconciler with entries that may be borrowed elsewhere during a pass.
BorrowItems == ConnItems \cup Nip46Items

NextBorrow ==
    \/ \E item \in BorrowItems : PendingInsert(item)
    \/ \E i \in 1..Len(pending) : PendingRemove(i)
    \/ CalcReadHash
    \/ CalcSkip
    \/ CalcRebuild
    \/ \E i \in 1..Len(active), v \in BOOLEAN : SetRemember(i, v)
    \/ \E i \in 1..Len(active) : HoldBorrow(i)
    \/ \E i \in 1..Len(active) : ReleaseBorrow(i)

SpecBorrow == Init /\ [][NextBorrow]_vars

\* The command channel with its senders and the takers of its receiver.
NextCommand ==
    \/ \E s \in Senders : SendCommand(s)
    \/ \E t \in Takers : TakeReceiver(t)
    \/ \E t \in Takers : RecvCommand(t)
    \/ \E t \in Takers : DropReceiver(t)

SpecCommand == Init /\ [][NextCommand]_vars

\* The settings page beside the command channel, the coordinator and the
\* readers of the settings.
NextSave ==
    \/ \E v \in SettingsValues : EditSettings(v)
    \/ RevertChanges
    \/ SaveClicked
    \/ SaveLock
    \/ SaveStore
    \/ SaveSend
    \/ \E w \in Workers : SettingsRead(w)
    \/ \E w \in Workers : SettingsReadDone(w)
    \/ SendCommand("minion")
    \/ \E t \in Takers : TakeReceiver(t)
    \/ \E t \in Takers : RecvCommand(t)
    \/ \E t \in Takers : DropReceiver(t)
    \/ HandleCommand

SpecSave == Init /\ [][NextSave]_vars

\* The broadcast channel with its sender and one minion.
NextBroadcast ==
    \/ \E track \in BOOLEAN : Broadcast(track)
    \/ Subscribe
    \/ RecvBroadcast
    \/ Unsubscribe

SpecBroadcast == Init /\ [][NextBroadcast]_vars

\* The threads' first accesses to GLOBALS.
NextInit ==
    \/ \E t \in Threads : Access(t)
    \/ \E t \in Threads : InitChannels(t)
    \/ \E t \in Threads, ok \in BOOLEAN : InitStorage(t, ok)
    \/ \E t \in Threads, ok \in BOOLEAN : InitDb(t, ok)
    \/ \E t \in Threads : InitFields(t)
    \/ \E t \in Threads : InitPublish(t)
    \/ \E t \in Threads : Wake(t)

SpecInit == Init /\ [][NextInit]_vars

\* A pass followed step by step, beside workers that lock and mutate.
PassItems == {Conn("wss://a", "j1"), Auth("A", "wss://a")} \cup Nip46Items

NextPass ==
    \/ PassCall
    \/ PassHash
    \/ PassAcquireRead
    \/ PassGate
    \/ PassEntry
    \/ PassScan
    \/ PassPush
    \/ PassLoopEnd
    \/ PassInstall
    \/ \E w \in Workers, l \in Locks : WorkerRequest(w, l)
    \/ \E w \in Workers : WorkerGrant(w)
    \/ \E w \in Workers, l \in Locks : WorkerRelease(w, l)
    \/ \E w \in Workers, item \in PassItems : WorkerInsert(w, item)
    \/ \E w \in Workers, i \in 1..Len(pending) : WorkerRemove(w, i)
    \/ \E w \in Workers : Decide(w)

SpecPass == Init /\ [][NextPass]_vars

\* The Notifications page over a list that a first pass has built.
PageItems ==
    {Conn("wss://a", "j1"), Auth("A", "wss://a")} \cup Nip46Items \cup OtherItems

RECURSIVE Sources(_)
Sources(n) ==
    IF n = 0 THEN {<<>>}
    ELSE Sources(n - 1) \cup
         {Append(s, [item |-> item, time |-> Len(s) + 1]) :
            s \in {t \in Sources(n - 1) : Len(t) = n - 1}, item \in PageItems}

InitPage ==
    /\ pending \in Sources(MaxEntries)
    /\ clock = Len(pending)
    /\ LET built == CalcLoop(CalcStart, pending, <<>>)
       IN  /\ active = Installed(built)
           /\ num_notif_relays = built.num_notif_relays
           /\ num_notif_pending = built.num_notif_pending
    /\ last_pending_hash = Fingerprint(pending)
    /\ pc = "idle"
    /\ hash = 0
    /\ since = "called"
    /\ rebuilt = TRUE
    /\ last_pass = NoPass
    /\ borrowed = {}
    /\ CommandInit
    /\ BroadcastInit
    /\ LazyInit
    /\ PassInit
    /\ PageInit
    /\ SaveInit

NextPage ==
    \/ \E f \in NotificationFilter : SetFilter(f)
    \/ \E nav \in SUBSET (1..Len(active)) : UpdatePage(nav)

SpecPage == InitPage /\ [][NextPage]_vars

\* A worker that is inside a method of the Pending Source leaves it.
ExitPending(w) ==
    \/ WorkerRelease(w, "pending")
    \/ \E item \in PassItems : WorkerInsert(w, item)
    \/ \E i \in 1..Len(pending) : WorkerRemove(w, i)

\* The same pass beside workers that use the Pending Source only, under the
\* scheduling calc relies on: the UI thread keeps running, a worker inside
\* the Pending Source leaves it, and the lock, when it is free again and again,
\* is granted to the waiting UI thread.
NextPassLive ==
    \/ PassCall
    \/ PassHash
    \/ PassAcquireRead
    \/ PassGate
    \/ PassEntry
    \/ PassScan
    \/ PassPush
    \/ PassLoopEnd
    \/ PassInstall
    \/ \E w \in Workers : WorkerRequest(w, "pending")
    \/ \E w \in Workers : WorkerGrant(w)
    \/ \E w \in Workers : WorkerRelease(w, "pending")
    \/ \E w \in Workers, item \in PassItems : WorkerInsert(w, item)
    \/ \E w \in Workers, i \in 1..Len(pending) : WorkerRemove(w, i)
    \/ \E w \in Workers : Decide(w)

SpecPassLive ==
    /\ Init
    /\ [][NextPassLive]_vars
    /\ WF_vars(PassStep)
    /\ SF_vars(PassHash)
    /\ SF_vars(PassAcquireRead)
    /\ \A w \in Workers : WF_vars(ExitPending(w))

\* ------------------------------------------------- vocabulary of the claims

\* The variants that define an identity key.
HasIdentityKey(item) ==
    item.kind = "RelayConnectionRequest" \/ item.kind = "RelayAuthenticationRequest"

\* Same variant and same identity key: the relay, or the (account, relay) pair.
SameIdentity(x, y) ==
    \/ /\ x.kind = "RelayConnectionRequest"
       /\ y.kind = "RelayConnectionRequest"
       /\ x.relay = y.relay
    \/ /\ x.kind = "RelayAuthenticationRequest"
       /\ y.kind = "RelayAuthenticationRequest"
       /\ x.account = y.account
       /\ x.relay = y.relay

\* In a state reached by a rebuild: the list that rebuild scanned.  The snapshot
\* it read is `pending`, which no step has changed since.
JustRebuilt == last_pass.done

OldList == last_pass.old

KeyedPositions(s) == {i \in 1..Len(s) : HasIdentityKey(s[i].item)}

UnkeyedPositions(s) == {i \in 1..Len(s) : ~HasIdentityKey(s[i].item)}

\* The list holds one entry per entry of the source, same item, same time.
Reflects(list, source) ==
    /\ Len(list) = Len(source)
    /\ \A i \in 1..Len(source) :
        /\ list[i].item = source[i].item
        /\ list[i].time = source[i].time

CountersMatch(source) ==
    /\ num_notif_relays = Cardinality(KeyedPositions(source))
    /\ num_notif_pending = Cardinality(UnkeyedPositions(source))

\* ------------------------------------------------------------------ claims

C2Claim ==
    JustRebuilt =>
        \A i \in KeyedPositions(pending) :
            (\E j \in 1..Len(OldList) :
                /\ SameIdentity(OldList[j].item, pending[i].item)
                /\ OldList[j].remember)
            => (i <= Len(active) /\ active[i].remember)

\* C3: after a rebuild an entry has remember set only if the scanned list held an
\* entry of the same variant and the same identity key with remember set; never
\* across variants, accounts or relays, and never for a variant without a key.
C3Theorem ==
    JustRebuilt =>
        \A i \in 1..Len(active) :
            active[i].remember =>
                \E j \in 1..Len(OldList) :
                    /\ SameIdentity(OldList[j].item, active[i].item)
                    /\ OldList[j].remember

\* A rebuild that copied remember to a connection request and left it unset on
\* an authentication request for the same relay.
C3Witness ==
    /\ JustRebuilt
    /\ \E i \in 1..Len(active), j \in 1..Len(OldList), k \in 1..Len(active) :
        /\ OldList[j].item.kind = "RelayConnectionRequest"
        /\ OldList[j].remember
        /\ active[i].item.kind = "RelayAuthenticationRequest"
        /\ active[i].item.relay = OldList[j].item.relay
        /\ ~active[i].remember
        /\ active[k].item.kind = "RelayConnectionRequest"
        /\ active[k].remember

\* C4: a rebuild creates the entry of every Nip46Request and catch-all item with
\* remember unset, whatever the scanned list held, one entry per snapshot item.
C4Theorem ==
    JustRebuilt =>
        /\ Len(active) = Len(pending)
        /\ \A i \in UnkeyedPositions(pending) :
            /\ active[i].item = pending[i].item
            /\ ~active[i].remember

\* A rebuild whose snapshot holds the same unkeyed item twice while the scanned
\* list held an entry for that item with remember set.
C4Witness ==
    /\ JustRebuilt
    /\ \E j \in UnkeyedPositions(OldList), i1 \in 1..Len(pending), i2 \in 1..Len(pending) :
        /\ OldList[j].remember
        /\ i1 # i2
        /\ pending[i1].item = OldList[j].item
        /\ pending[i2].item = OldList[j].item

\* C5: after a rebuild each counter is the number of snapshot entries of its
\* category, and the counters sum to the snapshot's length, which is the
\* list's length; earlier passes' counts are not carried over.
C5Theorem ==
    JustRebuilt =>
        /\ CountersMatch(pending)
        /\ num_notif_relays + num_notif_pending = Len(pending)
        /\ Len(active) = Len(pending)

\* A rebuild that followed a pass with entries, with both categories present.
C5Witness ==
    /\ JustRebuilt
    /\ OldList # <<>>
    /\ num_notif_relays >= 1
    /\ num_notif_pending >= 1

\* C6: after a rebuild the i-th entry wraps the i-th snapshot item with its
\* arrival time; timestamps are non-decreasing; an entry whose item left the
\* source is gone.
C6Theorem ==
    JustRebuilt =>
        /\ Reflects(active, pending)
        /\ \A i \in 1..Len(active), k \in 1..Len(active) :
            i <= k => active[i].time <= active[k].time

\* A rebuild over two entries of different items and arrival times, replacing
\* a list built by an earlier pass.
C6Witness ==
    /\ JustRebuilt
    /\ OldList # <<>>
    /\ Len(active) >= 2
    /\ active[1].item # active[2].item
    /\ active[1].time < active[2].time

\* C7: once the source has stopped changing and calc has been called again (a
\* whole call, begun after the last change), the list and the counters reflect
\* the source.
C7Claim ==
    (pc = "idle" /\ since = "called") =>
        /\ Reflects(active, pending)
        /\ CountersMatch(pending)

\* C8: calc never rebuilds from a source it has already rebuilt from with no
\* change of the source in between.
C8Claim ==
    [][ (pc = "hashed" /\ pc' = "idle" /\ last_pass'.done) => ~rebuilt ]_vars

\* C9: a rebuild from an empty source yields an empty list and zero counters
\* and records the hash calc read; while the source stays empty this is stable.
C9Theorem ==
    [][ /\ (pc = "hashed" /\ pc' = "idle" /\ last_pass'.done /\ pending = <<>>)
            => /\ active' = <<>>
               /\ num_notif_relays' = 0
               /\ num_notif_pending' = 0
               /\ last_pending_hash' = hash
        /\ (/\ pending = <<>>
            /\ pending' = <<>>
            /\ active = <<>>
            /\ num_notif_relays = 0
            /\ num_notif_pending = 0)
            => /\ active' = <<>>
               /\ num_notif_relays' = 0
               /\ num_notif_pending' = 0 ]_vars

\* A rebuild from the empty source that replaced a non-empty list.
C9Witness ==
    /\ JustRebuilt
    /\ pending = <<>>
    /\ OldList # <<>>
    /\ active = <<>>

\* C10: wherever draw_icons or update can run, the counters are the counts of
\* the list that is installed, entry for entry.
C10Theorem ==
    ReaderCanRun =>
        /\ CountersMatch(active)
        /\ num_notif_relays + num_notif_pending = Len(active)

\* A reader point after a rebuild replaced a list by one with other counts.
C10Witness ==
    /\ ReaderCanRun
    /\ JustRebuilt
    /\ Len(OldList) # Len(active)
    /\ Cardinality(KeyedPositions(OldList)) # num_notif_relays
    /\ num_notif_pending >= 1

\* The last inspected old entry with the identity key of `item`, if any, decides
\* the copied value; with none the new entry keeps its default.
ExpectedRemember(item, old, locked) ==
    LET ms == {j \in 1..Len(old) : j \notin locked /\ SameIdentity(old[j].item, item)}
    IN  IF ms = {} THEN FALSE
        ELSE old[CHOOSE j \in ms : \A k \in ms : k <= j].remember

\* C11: a previous-pass entry that cannot be borrowed during the carry-over scan
\* contributes nothing (the new entry's remember is decided by the entries that
\* can be inspected, and is false when none of those matches), and the pass is
\* not aborted: every snapshot entry is appended and counted, and the list and
\* the recorded fingerprint are replaced.
C11Theorem ==
    [][ (pc = "hashed" /\ last_pending_hash # hash /\ pc' = "idle") =>
          /\ Reflects(active', pending)
          /\ num_notif_relays' = Cardinality(KeyedPositions(pending))
          /\ num_notif_pending' = Cardinality(UnkeyedPositions(pending))
          /\ last_pending_hash' = hash
          /\ \A i \in KeyedPositions(pending) :
                active'[i].remember = ExpectedRemember(pending[i].item, active, borrowed)
      ]_vars

\* A rebuild met an old entry it could not borrow, that entry had remember set and
\* the identity key of a snapshot item, the new entry for that item has remember
\* false, and a later snapshot entry was still processed.
C11Witness ==
    /\ JustRebuilt
    /\ \E i \in KeyedPositions(pending), j \in last_pass.locked :
          /\ SameIdentity(OldList[j].item, pending[i].item)
          /\ OldList[j].remember
          /\ ~active[i].remember
          /\ i < Len(active)

\* Every command handed to the channel so far, received ones first.
AllCommands == [k \in 1..Len(delivered) |-> delivered[k].cmd] \o to_overlord

CommandsFrom(s) == SelectSeq(AllCommands, LAMBDA c : c.from = s)

\* C12: a send on to_overlord is possible whatever the number of undelivered
\* commands, and while the receiver is alive the commands of each sender are
\* received and queued in the order sent, none lost, none duplicated.
C12Theorem ==
    /\ \A s \in Senders : sent[s] < MaxSends => ENABLED SendCommand(s)
    /\ ~closed => \A s \in Senders :
          /\ Len(CommandsFrom(s)) = sent[s]
          /\ \A k \in 1..sent[s] : CommandsFrom(s)[k].n = k

\* Commands of both senders were received, and two more were sent and are
\* undelivered (the second of them was sent onto a non-empty queue).
C12Witness ==
    /\ ~closed
    /\ Len(to_overlord) >= 2
    /\ \E i, j \in 1..Len(delivered) : delivered[i].cmd.from # delivered[j].cmd.from

\* C15: the receiver is in tmp_overlord_receiver as Some until the first take;
\* at most one taker ever gets it and every other taker finds None; every
\* command received, whichever sender sent it, was received by that one taker.
C15Theorem ==
    /\ (\A t \in Takers : took[t] = "no") => tmp_overlord_receiver = "Some"
    /\ (\E t \in Takers : took[t] # "no") => tmp_overlord_receiver = "None"
    /\ Cardinality({t \in Takers : took[t] = "Some"}) <= 1
    /\ \A k \in 1..Len(delivered) : took[delivered[k].by] = "Some"

\* Two takers have taken, one got the receiver and the other None, and the
\* one consumer has received commands of two senders.
C15Witness ==
    /\ \E t, u \in Takers : took[t] = "Some" /\ took[u] = "None"
    /\ \E i, j \in 1..Len(delivered) : delivered[i].cmd.from # delivered[j].cmd.from

\* C13 as stated: a message sent while the minion is subscribed stays available
\* to it, as long as it keeps its receiver, until it has received it.
C13Claim ==
    [][ (due /\ mark > 0 /\ subscribed') => (mark' > 0 \/ got') ]_vars

\* C13, amended: a message sent while the minion is subscribed stays available
\* to it, as long as it keeps its receiver, until it has received it or until
\* 256 later messages have been sent; a minion that was not subscribed when the
\* message was sent never receives it; and a send is possible, and changes
\* nothing else, when nobody is subscribed.
C13Theorem ==
    /\ [][ (due /\ mark > 0 /\ subscribed') =>
             (mark' > 0 \/ got' \/ (unread - mark) + 1 >= 256) ]_vars
    /\ [](got => due)
    /\ [](~subscribed => (unread = 0 /\ mark = 0 /\ ENABLED Broadcast(FALSE)))

\* The followed message was sent while the minion was subscribed, later messages
\* were sent before the minion received anything, and the minion has received it.
C13Witness == due /\ got /\ unread >= 2

\* C14: the initializer body is entered at most once; a thread that has obtained
\* the registry obtained the one stored value with every field constructed; when
\* a required subsystem fails to construct nothing is stored and no thread
\* obtains a registry; and only a complete value is ever stored.
C14Theorem ==
    /\ runs <= 1
    /\ \A t \in Threads : tpc[t] = "ready" =>
          (once = "complete" /\ seen[t] = GlobalsFields /\ seen[t] = published)
    /\ published \in {{}, GlobalsFields}
    /\ once = "poisoned" =>
          (published = {} /\ \A t \in Threads : tpc[t] # "ready" /\ seen[t] = {})

\* The threads raced on the first access: one ran the initializer, two others
\* found it running and waited, and every thread obtained the registry.
C14Witness ==
    /\ \A t \in Threads : tpc[t] = "ready"
    /\ Cardinality({t \in Threads : waited[t]}) >= 2

\* The threads that hold lock l.
Holders(l) ==
    {w \in Workers : l \in wheld[w]} \cup (IF l \in ui_held THEN {"ui"} ELSE {})

\* The threads that thread t is waiting for.
WaitsOn(t) ==
    IF t = "ui"
    THEN (IF upc \in {"hash", "read"} THEN Holders("pending") \ {"ui"} ELSE {})
    ELSE (IF wants[t] = "none" THEN {} ELSE Holders(wants[t]) \ {t})

WaitsOnAll(ts) == UNION {WaitsOn(t) : t \in ts}

\* Thread t waits, directly or through others, for itself (three threads).
OnWaitCycle(t) ==
    LET r1 == WaitsOn(t)
        r2 == r1 \cup WaitsOnAll(r1)
        r3 == r2 \cup WaitsOnAll(r2)
    IN  t \in r3

\* C16: a free lock is granted whatever other locks the asking thread holds;
\* the UI thread holds at most one registry lock, the Pending Source's, never
\* acquires a lock while it holds one, and is never on a cycle of lock waits.
C16Theorem ==
    /\ \A w \in Workers :
          (wants[w] # "none" /\ LockFree(wants[w])) => ENABLED WorkerGrant(w)
    /\ Cardinality(ui_held) <= 1
    /\ ui_held \subseteq {"pending"}
    /\ ~nested
    /\ ~OnWaitCycle("ui")

\* The UI thread is inside the loop holding the Pending Source's read guard, a
\* worker that holds another lock waits for the Pending Source, and the two
\* workers hold different locks.
C16Witness ==
    /\ upc = "scan"
    /\ ui_held = {"pending"}
    /\ \E w, u \in Workers :
          /\ wants[w] = "pending"
          /\ wheld[w] = {"settings"}
          /\ wheld[u] = {"db"}

\* C18: the loop ends having visited every snapshot entry once and, for each
\* keyed snapshot entry, every old entry once; outside the two lock
\* acquisitions a step of calc is always possible, whatever the workers do or
\* wait for; a lock acquisition is possible whenever no worker is inside the
\* Pending Source; and every calc call returns.
C18Theorem ==
    /\ [][ (upc = "loop" /\ upc' = "install") =>
             /\ visits.outer = Len(pending)
             /\ visits.inner = Cardinality(KeyedPositions(pending)) * Len(active)
             /\ Reflects(new_active, pending) ]_vars
    /\ [](upc \in {"gate", "loop", "scan", "install"} => ENABLED PassStep)
    /\ []((upc = "hash" /\ NoWriter("pending")) => ENABLED PassHash)
    /\ []((upc = "read" /\ NoWriter("pending")) => ENABLED PassAcquireRead)
    /\ (upc # "idle") ~> (upc = "idle")

\* A pass has gone through its loops (two snapshot entries, an old entry
\* scanned) while a worker is blocked until its item is decided and another
\* waits for a lock.
C18Witness ==
    /\ upc = "install"
    /\ visits.outer >= 2
    /\ visits.inner >= 1
    /\ \E w, u \in Workers : awaiting[w] /\ wants[u] # "none"

\* The positions of the list whose entry matches the filter, in list order.
Matching(list, f) == SelectSeq([k \in 1..Len(list) |-> k],
                               LAMBDA k : f = "All" \/ f = Category(list[k]))

\* C17 as stated: the page shows exactly the entries of the active list that
\* match the filter, in list order.
C17Claim == drawn => shown = Matching(active, filter)

\* C17, amended: the page shows, in list order, the entries of the active list
\* that match the filter, up to and including the first one whose show() yields
\* a page (all of them when none does); and changing the filter changes neither
\* the active list, nor the counters, nor the recorded hash.
C17Theorem ==
    /\ [](drawn =>
            LET m == Matching(active, filter)
            IN  IF broke = 0 THEN shown = m
                ELSE /\ shown # <<>>
                     /\ Len(shown) <= Len(m)
                     /\ shown = SubSeq(m, 1, Len(shown))
                     /\ shown[Len(shown)] = broke)
    /\ [][filter' # filter => notifVars' = notifVars]_vars

\* A frame drawn under a category filter: two entries match and were shown, a
\* third entry of another category was left out, and no show() yielded a page.
C17Witness ==
    /\ drawn
    /\ filter \notin {"All"}
    /\ broke = 0
    /\ Len(shown) = 2
    /\ Len(active) = 3

\* The Pending Source contents a list was built from: its items and times.
BuiltFrom(list) == [k \in 1..Len(list) |-> [item |-> list[k].item, time |-> list[k].time]]

\* C19: whenever calc is not executing, last_pending_hash is the fingerprint of
\* the Pending Source contents the active list was built from, or the list is
\* the initial empty one with the initial hash.
C19Claim ==
    pc = "idle" =>
        \/ (active = <<>> /\ last_pending_hash = 0)
        \/ last_pending_hash = Fingerprint(BuiltFrom(active))

MatchesIn(list, item) == {j \in 1..Len(list) : SameIdentity(list[j].item, item)}

LastOf(ms) == CHOOSE j \in ms : \A k \in ms : k <= j

\* C21: when the scanned list holds several entries of the variant and identity
\* key of a new keyed item, all of them obtainable, the scan goes through all of
\* them and the new entry's remember is that of the last such entry in list
\* order; snapshot items that share an identity key each get an entry of their
\* own, at their own position, and those entries carry that same value.
C21Theorem ==
    (JustRebuilt /\ last_pass.locked = {}) =>
        /\ Len(active) = Len(pending)
        /\ \A i \in KeyedPositions(pending) :
              LET ms == MatchesIn(OldList, pending[i].item)
              IN  /\ active[i].item = pending[i].item
                  /\ ms # {} => active[i].remember = OldList[LastOf(ms)].remember
        /\ \A i1 \in KeyedPositions(pending), i2 \in KeyedPositions(pending) :
              SameIdentity(pending[i1].item, pending[i2].item)
                  => active[i1].remember = active[i2].remember

\* A rebuild whose scanned list held two entries with one identity key, the first
\* with remember set and the last with it unset, and whose snapshot holds two
\* items with that key: both new entries have remember unset.
C21Witness ==
    /\ JustRebuilt
    /\ last_pass.locked = {}
    /\ \E j1 \in KeyedPositions(OldList), j2 \in KeyedPositions(OldList),
          i1 \in KeyedPositions(pending), i2 \in KeyedPositions(pending) :
          /\ j1 < j2
          /\ i1 < i2
          /\ SameIdentity(OldList[j1].item, OldList[j2].item)
          /\ SameIdentity(OldList[j1].item, pending[i1].item)
          /\ SameIdentity(OldList[j1].item, pending[i2].item)
          /\ j2 = LastOf(MatchesIn(OldList, pending[i1].item))
          /\ OldList[j1].remember
          /\ ~OldList[j2].remember
          /\ ~active[i1].remember
          /\ ~active[i2].remember

\* The step that is the send of settings/mod.rs:56.
IsSaveSend == spc = "send" /\ spc' = "page"

\* The step in which the holder of the receiver dequeues a SaveSettings command.
IsSaveDequeue ==
    /\ Len(delivered') = Len(delivered) + 1
    /\ Head(to_overlord).from = "ui"

\* C22: SAVE CHANGES writes the page's settings into the global settings under
\* the write lock, releases the lock, and only then enqueues SaveSettings: when
\* the send happens the write of this save is done and the UI thread does not
\* hold the settings lock; and whenever a SaveSettings command is dequeued the
\* global settings hold the value written by that save or by a later one.
C22Theorem ==
    [][ /\ IsSaveSend =>
              /\ settings_writer # "ui"
              /\ Len(written) = sent["ui"] + 1
              /\ settings = written[Len(written)]
        /\ IsSaveDequeue =>
              LET n == Head(to_overlord).n
              IN  /\ Len(written) >= n
                  /\ \E j \in n..Len(written) : settings = written[j]
      ]_vars

\* A SaveSettings command was dequeued after a later save had replaced the
\* value the first save wrote, the later save's command still being queued.
C22Witness ==
    /\ Len(delivered) = 1
    /\ delivered[1].cmd = [from |-> "ui", n |-> 1]
    /\ Len(written) = 2
    /\ written[1] # written[2]
    /\ settings = written[2]
    /\ settings_writer = "none"
    /\ \E k \in 1..Len(to_overlord) : to_overlord[k] = [from |-> "ui", n |-> 2]

=============================================================================
